---- MODULE Spec2Model ----
(***************************************************************************)
(* A model of the decision core of loom:                                   *)
(*   - pool_health_monitor_worker   (defi-actors, pool_health_monitor.rs)  *)
(*   - TxState, SwapType, TxComposeData, TxComposeBest                     *)
(*                                  (defi-events, txcompose.rs)            *)
(* Amounts are naturals far below the U256 / u64 / u32 wrap-around points, *)
(* so the arithmetic of the model is the arithmetic of the code on the     *)
(* values the model enumerates.                                            *)
(***************************************************************************)
EXTENDS Integers, Sequences, FiniteSets, TLC

VARIABLES
    \* ---- pool health monitor -------------------------------------------
    pool_errors_map,   \* HashMap<Address, u32>: a function on the pools seen
    market,            \* Shared Market State: [pools, disabled]
    market_lock,       \* how another task holds the market: "free", "read", "write"
    chan,              \* broadcast channel: messages retained for the receiver
    lagged,            \* the receiver was overrun since its last recv
    senders_open,      \* some Sender of the channel is still alive
    pc,                \* where the worker is: "recv" or "write"
    pending,           \* the pool whose disable awaits market.write()
    disable_writes,    \* history: number of set_pool_ok(p, false) calls per pool
    last_log,          \* the diagnostic emitted by the last handled message
    consumed,          \* history: PoolSwapError events received, per pool
    lost,              \* history: a PoolSwapError event was overwritten unread
    \* ---- TxComposeBest --------------------------------------------------
    best,              \* the TxComposeBest under test
    offered,           \* history: the requests passed to check, in order
    results,           \* history: what each check did, per dimension
    \* ---- pure functions under test --------------------------------------
    data,              \* a TxComposeData
    tx_state,          \* a TxState
    ret                \* the last call made and what it returned

vars == <<pool_errors_map, market, market_lock, chan, lagged, senders_open, pc, pending,
          disable_writes, last_log, consumed, lost, best, offered, results,
          data, tx_state, ret>>

monitorVars == <<pool_errors_map, market, market_lock, chan, lagged, senders_open, pc,
                 pending, disable_writes, last_log, consumed, lost>>
bestVars == <<best, offered, results>>
pureVars == <<data, tx_state, ret>>

None == "None"

\* Option<T>: None is the empty sequence, Some(v) the sequence of v alone.
NoneOpt == << >>
Some(v) == <<v>>
is_some(o) == o # << >>
unwrap_or_default(o) == IF o = << >> THEN 0 ELSE o[1]

RECURSIVE SumSeq(_)
SumSeq(q) == IF q = << >> THEN 0 ELSE Head(q) + SumSeq(Tail(q))

RECURSIVE Flatten(_)
Flatten(qq) == IF qq = << >> THEN << >> ELSE Head(qq) \o Flatten(Tail(qq))

Range(q) == {q[i] : i \in DOMAIN q}

(***************************************************************************)
(* Pool health monitor                                                     *)
(***************************************************************************)

Pools == {"p1", "p2"}

\* Pools the Market knows; "p2" is reported by swaps but never registered.
RegisteredPools == {"p1"}

\* if *entry == 100 / if *entry > 100
Threshold == 100

\* The producers stop once the monitor has counted this many swap errors.
MaxEvents == 102

\* Capacity of the broadcast channel.
ChanCap == 1

PoolSwapError(p) == [kind |-> "PoolSwapError", pool |-> p]
OtherHealthEvent == [kind |-> "Other", pool |-> None]
HealthEvents == {PoolSwapError(p) : p \in Pools} \cup {OtherHealthEvent}

\* Market::set_pool_ok(address, ok)
set_pool_ok(m, address, ok) ==
    [m EXCEPT !.disabled = [@ EXCEPT ![address] = ~ok]]

\* Market::get_pool(&address)
get_pool(m, address) ==
    IF address \in m.pools THEN address ELSE None

is_pool_ok(m, address) == ~m.disabled[address]

\* pool_errors_map.get(p), 0 when there is no entry
ErrorCount(map, p) == IF p \in DOMAIN map THEN map[p] ELSE 0

RECURSIVE SumOver(_, _)
SumOver(map, S) ==
    IF S = {} THEN 0
    ELSE LET p == CHOOSE x \in S : TRUE
         IN  map[p] + SumOver(map, S \ {p})

TotalErrors == SumOver(pool_errors_map, DOMAIN pool_errors_map)

\* let entry = pool_errors_map.entry(pool).or_insert(0); *entry += 1;
\* Variants of the counting: every known pool counted at once, and a first
\* sighting counted twice.
IncrementEntry_AllPools(map, p) ==
    [q \in (DOMAIN map) \cup {p} |-> ErrorCount(map, q) + 1]

IncrementEntry_InsertOne(map, p) ==
    [q \in (DOMAIN map) \cup {p} |->
        IF q = p THEN (IF p \in DOMAIN map THEN map[p] ELSE 1) + 1 ELSE map[q]]

IncrementEntry(map, p) ==
    [q \in (DOMAIN map) \cup {p} |-> IF q = p THEN ErrorCount(map, p) + 1 ELSE map[q]]

\* Variants of the threshold test: `>=` for `==`, and an off-by-one.
ReachesThreshold_AtLeast(entry) == entry >= Threshold
ReachesThreshold_OffByOne(entry) == entry = Threshold + 1

\* if *entry == 100 { market.write().await ... }
ReachesThreshold(entry) == entry = Threshold

\* if *entry > 100 { error!("Pool disabled ...") }
AboveThreshold(entry) == entry > Threshold

MonitorInit ==
    /\ pool_errors_map = << >>
    /\ market = [pools |-> RegisteredPools, disabled |-> [p \in Pools |-> FALSE]]
    /\ market_lock = "free"
    /\ chan = << >>
    /\ lagged = FALSE
    /\ senders_open = TRUE
    /\ pc = "recv"
    /\ pending = None
    /\ disable_writes = [p \in Pools |-> 0]
    /\ last_log = "none"
    /\ consumed = [p \in Pools |-> 0]
    /\ lost = FALSE

\* Sender::send on the broadcast channel: a full channel overwrites its oldest
\* message, and the receiver that had not read it yet is marked lagged.
Publish(e) ==
    /\ senders_open
    /\ TotalErrors + Len(chan) < MaxEvents
    /\ IF Len(chan) < ChanCap
       THEN /\ chan' = Append(chan, e)
            /\ UNCHANGED <<lagged, lost>>
       ELSE /\ chan' = Append(Tail(chan), e)
            /\ lagged' = TRUE
            /\ lost' = (lost \/ Head(chan).kind = "PoolSwapError")
    /\ UNCHANGED <<pool_errors_map, market, market_lock, senders_open, pc,
                   pending, disable_writes, last_log, consumed>>
    /\ UNCHANGED <<bestVars, pureVars>>

\* Every Sender is dropped: the channel is closed for good.
CloseChannel ==
    /\ senders_open
    /\ senders_open' = FALSE
    /\ UNCHANGED <<pool_errors_map, market, market_lock, chan, lagged, pc,
                   pending, disable_writes, last_log, consumed, lost>>
    /\ UNCHANGED <<bestVars, pureVars>>

\* Receiver::recv: Err(Lagged) once after an overrun, then the retained
\* messages in order, then Err(Closed) when no sender is left; it waits
\* otherwise.
RecvReady == lagged \/ chan # << >> \/ ~senders_open

RecvResult ==
    IF lagged THEN [ok |-> FALSE, err |-> "Lagged", inner |-> OtherHealthEvent]
    ELSE IF chan # << >> THEN [ok |-> TRUE, err |-> None, inner |-> Head(chan)]
    ELSE [ok |-> FALSE, err |-> "Closed", inner |-> OtherHealthEvent]

\* error!("pool_health_update error {}", e): the text names the error.
RecvErrorLog(err) == IF err = "Closed" THEN "recv_error_closed" ELSE "recv_error_lagged"

\* Every health event is taken for a swap error.
IsPoolSwapError_AnyKind(e) == TRUE

\* match pool_health_message.inner { HealthEvent::PoolSwapError(swap_error) => ..
IsPoolSwapError(e) == e.kind = "PoolSwapError"

\* One turn of the loop, from recv() up to the next suspension point.
MonitorRecv ==
    /\ pc = "recv"
    /\ RecvReady
    /\ LET msg == RecvResult IN
       /\ lagged' = FALSE
       /\ chan' = IF msg.ok THEN Tail(chan) ELSE chan
       /\ IF msg.ok
          THEN IF IsPoolSwapError(msg.inner)
               THEN LET pool == msg.inner.pool
                        map == IncrementEntry(pool_errors_map, pool)
                        entry == map[pool]
                    IN  /\ pool_errors_map' = map
                        /\ consumed' = [consumed EXCEPT ![pool] = @ + 1]
                        /\ IF ReachesThreshold(entry)
                           THEN /\ pc' = "write"
                                /\ pending' = pool
                                /\ last_log' = "none"
                           ELSE /\ pc' = "recv"
                                /\ pending' = None
                                /\ last_log' = IF AboveThreshold(entry)
                                               THEN "pool_disabled"
                                               ELSE "none"
               ELSE /\ last_log' = "none"
                    /\ UNCHANGED <<pool_errors_map, pc, pending, consumed>>
          ELSE /\ last_log' = RecvErrorLog(msg.err)
               /\ UNCHANGED <<pool_errors_map, pc, pending, consumed>>
    /\ UNCHANGED <<market, market_lock, senders_open, disable_writes, lost>>
    /\ UNCHANGED <<bestVars, pureVars>>

\* market.write().await is granted, which takes the market free of readers
\* and writers: disable the pool, log, drop the guard and finish the turn
\* (the `> 100` test that follows is false at 100).
MonitorWrite ==
    /\ pc = "write"
    /\ market_lock = "free"
    /\ market' = set_pool_ok(market, pending, FALSE)
    /\ disable_writes' = [disable_writes EXCEPT ![pending] = @ + 1]
    /\ last_log' = IF get_pool(market', pending) # None
                   THEN "disabling"
                   ELSE "disabling_not_found"
    /\ pc' = "recv"
    /\ pending' = None
    /\ UNCHANGED <<pool_errors_map, market_lock, chan, lagged, senders_open,
                   consumed, lost>>
    /\ UNCHANGED <<bestVars, pureVars>>

\* Another task takes the market for reading or for writing ...
OtherAcquire(mode) ==
    /\ market_lock = "free"
    /\ market_lock' = mode
    /\ UNCHANGED <<pool_errors_map, market, chan, lagged, senders_open, pc,
                   pending, disable_writes, last_log, consumed, lost>>
    /\ UNCHANGED <<bestVars, pureVars>>

\* ... and lets it go.
OtherRelease ==
    /\ market_lock # "free"
    /\ market_lock' = "free"
    /\ UNCHANGED <<pool_errors_map, market, chan, lagged, senders_open, pc,
                   pending, disable_writes, last_log, consumed, lost>>
    /\ UNCHANGED <<bestVars, pureVars>>

\* An operator re-enables a disabled pool: set_pool_ok(p, true) under the
\* write lock.
OperatorEnable(p) ==
    /\ market_lock = "free"
    /\ ~is_pool_ok(market, p)
    /\ market' = set_pool_ok(market, p, TRUE)
    /\ UNCHANGED <<pool_errors_map, market_lock, chan, lagged, senders_open, pc,
                   pending, disable_writes, last_log, consumed, lost>>
    /\ UNCHANGED <<bestVars, pureVars>>

(***************************************************************************)
(* SwapLine and SwapStep (defi-entities), as far as SwapType reads them    *)
(***************************************************************************)

SwapLine(amount_in, amount_out, eth_price, gas_used, pools, first_token) ==
    [amount_in |-> amount_in, amount_out |-> amount_out, eth_price |-> eth_price,
     gas_used |-> gas_used, pools |-> pools, first_token |-> first_token]

\* SwapLine::abs_profit
SwapLine_abs_profit(l) ==
    IF l.amount_out > l.amount_in THEN l.amount_out - l.amount_in ELSE 0

\* SwapLine::abs_profit_eth: the profit at the entry token's price in ETH
SwapLine_abs_profit_eth(l) == SwapLine_abs_profit(l) * l.eth_price

\* SwapLine::pools, seen through get_address
SwapLine_pools(l) == l.pools

\* SwapLine::get_first_token
SwapLine_get_first_token(l) == l.first_token

SwapStep(lines) == [swap_line_vec |-> lines]

\* SwapStep::swap_line_vec
swap_line_vec(sp) == sp.swap_line_vec

\* SwapStep::abs_profit(sp0, sp1): what the second step pays out over what
\* the first takes in, the pair executed as one unit.
SwapStep_abs_profit(sp0, sp1) ==
    LET in0 == SumSeq([i \in DOMAIN sp0.swap_line_vec |-> sp0.swap_line_vec[i].amount_in])
        out1 == SumSeq([i \in DOMAIN sp1.swap_line_vec |-> sp1.swap_line_vec[i].amount_out])
    IN  IF out1 > in0 THEN out1 - in0 ELSE 0

\* SwapStep::abs_profit_eth(sp0, sp1)
SwapStep_abs_profit_eth(sp0, sp1) ==
    IF sp0.swap_line_vec = << >> THEN 0
    ELSE SwapStep_abs_profit(sp0, sp1) * sp0.swap_line_vec[1].eth_price

\* SwapStep::get_first_token
SwapStep_get_first_token(sp) ==
    IF sp.swap_line_vec = << >> THEN NoneOpt
    ELSE SwapLine_get_first_token(sp.swap_line_vec[1])

(***************************************************************************)
(* SwapType                                                                *)
(***************************************************************************)

SwapNone == [tag |-> "None"]
BackrunSwapSteps(sp0, sp1) == [tag |-> "BackrunSwapSteps", sp0 |-> sp0, sp1 |-> sp1]
BackrunSwapLine(l) == [tag |-> "BackrunSwapLine", line |-> l]
Multiple(v) == [tag |-> "Multiple", vec |-> v]

RECURSIVE abs_profit(_)
\* Multiple maps to its first child alone.
abs_profit_FirstChild(s) ==
    CASE s.tag = "BackrunSwapLine" -> SwapLine_abs_profit(s.line)
      [] s.tag = "BackrunSwapSteps" -> SwapStep_abs_profit(s.sp0, s.sp1)
      [] s.tag = "Multiple" -> IF s.vec = << >> THEN 0 ELSE abs_profit(s.vec[1])
      [] s.tag = "None" -> 0

abs_profit(s) ==
    CASE s.tag = "BackrunSwapLine" -> SwapLine_abs_profit(s.line)
      [] s.tag = "BackrunSwapSteps" -> SwapStep_abs_profit(s.sp0, s.sp1)
      [] s.tag = "Multiple" -> SumSeq([i \in DOMAIN s.vec |-> abs_profit(s.vec[i])])
      [] s.tag = "None" -> 0

\* the gas of the lines of one step: gas_used.unwrap_or_default(), summed
StepGas(sp) ==
    SumSeq([i \in DOMAIN swap_line_vec(sp) |->
               unwrap_or_default(swap_line_vec(sp)[i].gas_used)])

RECURSIVE pre_estimate_gas(_)
pre_estimate_gas(s) ==
    CASE s.tag = "BackrunSwapLine" -> unwrap_or_default(s.line.gas_used)
      [] s.tag = "BackrunSwapSteps" -> StepGas(s.sp0) + StepGas(s.sp1)
      [] s.tag = "Multiple" -> SumSeq([i \in DOMAIN s.vec |-> pre_estimate_gas(s.vec[i])])
      [] s.tag = "None" -> 0

RECURSIVE abs_profit_eth(_)
abs_profit_eth(s) ==
    CASE s.tag = "BackrunSwapLine" -> SwapLine_abs_profit_eth(s.line)
      [] s.tag = "BackrunSwapSteps" -> SwapStep_abs_profit_eth(s.sp0, s.sp1)
      [] s.tag = "Multiple" -> SumSeq([i \in DOMAIN s.vec |-> abs_profit_eth(s.vec[i])])
      [] s.tag = "None" -> 0

get_first_token(s) ==
    CASE s.tag = "BackrunSwapLine" -> SwapLine_get_first_token(s.line)
      [] s.tag = "BackrunSwapSteps" -> SwapStep_get_first_token(s.sp0)
      [] s.tag = "Multiple" -> NoneOpt
      [] s.tag = "None" -> NoneOpt

\* s.iter().filter(|x| { let t = x.get_first_token();
\*                       t.is_some() && seen.insert(t.unwrap()) })
\*         .map(|x| x.get_first_token().ok_or_eyre("x"))
\* with `seen` the tokens already let through.
RECURSIVE FilterSeen(_, _)
FilterSeen(vec, seen) ==
    IF vec = << >> THEN << >>
    ELSE LET t == get_first_token(Head(vec)) IN
         IF is_some(t) /\ t[1] \notin seen
         THEN <<t[1]>> \o FilterSeen(Tail(vec), seen \cup {t[1]})
         ELSE FilterSeen(Tail(vec), seen)

\* Every child's token is let through, seen or not.
get_first_tokens_NoDedup(s) ==
    CASE s.tag = "BackrunSwapLine" ->
            IF is_some(SwapLine_get_first_token(s.line))
            THEN [ok |-> TRUE, value |-> <<SwapLine_get_first_token(s.line)[1]>>, err |-> ""]
            ELSE [ok |-> FALSE, value |-> << >>, err |-> "NO_FIRST_TOKEN"]
      [] s.tag = "BackrunSwapSteps" ->
            IF is_some(SwapStep_get_first_token(s.sp0))
            THEN [ok |-> TRUE, value |-> <<SwapStep_get_first_token(s.sp0)[1]>>, err |-> ""]
            ELSE [ok |-> FALSE, value |-> << >>, err |-> "NO_FIRST_TOKEN"]
      [] s.tag = "Multiple" ->
            [ok |-> TRUE,
             value |-> Flatten([i \in DOMAIN s.vec |-> get_first_token(s.vec[i])]),
             err |-> ""]
      [] s.tag = "None" ->
            [ok |-> FALSE, value |-> << >>, err |-> "NOT_SUPPORTED_SWAP_TYPE"]

\* SwapType::get_first_tokens(&self) -> Result<Vec<&Arc<Token>>>
get_first_tokens(s) ==
    CASE s.tag = "BackrunSwapLine" ->
            IF is_some(SwapLine_get_first_token(s.line))
            THEN [ok |-> TRUE, value |-> <<SwapLine_get_first_token(s.line)[1]>>, err |-> ""]
            ELSE [ok |-> FALSE, value |-> << >>, err |-> "NO_FIRST_TOKEN"]
      [] s.tag = "BackrunSwapSteps" ->
            IF is_some(SwapStep_get_first_token(s.sp0))
            THEN [ok |-> TRUE, value |-> <<SwapStep_get_first_token(s.sp0)[1]>>, err |-> ""]
            ELSE [ok |-> FALSE, value |-> << >>, err |-> "NO_FIRST_TOKEN"]
      [] s.tag = "Multiple" ->
            [ok |-> TRUE, value |-> FilterSeen(s.vec, {}), err |-> ""]
      [] s.tag = "None" ->
            [ok |-> FALSE, value |-> << >>, err |-> "NOT_SUPPORTED_SWAP_TYPE"]

\* the pools of the lines of one step, line after line
StepPools(sp) ==
    Flatten([i \in DOMAIN swap_line_vec(sp) |-> SwapLine_pools(swap_line_vec(sp)[i])])

RECURSIVE get_pool_address_vec(_)
get_pool_address_vec(s) ==
    CASE s.tag = "BackrunSwapSteps" -> StepPools(s.sp0)
      [] s.tag = "BackrunSwapLine" -> SwapLine_pools(s.line)
      [] s.tag = "Multiple" -> Flatten([i \in DOMAIN s.vec |-> get_pool_address_vec(s.vec[i])])
      [] s.tag = "None" -> << >>

(***************************************************************************)
(* TxState                                                                 *)
(***************************************************************************)

Stuffing(t) == [tag |-> "Stuffing", tx |-> t]
SignatureRequired(r) == [tag |-> "SignatureRequired", request |-> r]
ReadyForBroadcast(b) == [tag |-> "ReadyForBroadcast", bytes |-> b]
ReadyForBroadcastStuffing(b) == [tag |-> "ReadyForBroadcastStuffing", bytes |-> b]

Ok(v) == [ok |-> TRUE, value |-> v, err |-> ""]
Err(e) == [ok |-> FALSE, value |-> << >>, err |-> e]

\* TxEnvelope::encode of a converted transaction: an RLP list header, then
\* the payload.
EnvelopeEncode(t) == <<192 + Len(t.payload)>> \o t.payload

\* An unsigned state yields empty bytes instead of an error.
rlp_EmptyWhenUnsigned(st) ==
    CASE st.tag = "Stuffing" ->
            IF st.tx.convertible THEN Ok(EnvelopeEncode(st.tx)) ELSE Err("CONVERSION")
      [] st.tag \in {"ReadyForBroadcast", "ReadyForBroadcastStuffing"} -> Ok(st.bytes)
      [] OTHER -> Ok(<< >>)

\* TxState::rlp(&self) -> Result<Bytes>
rlp(st) ==
    CASE st.tag = "Stuffing" ->
            IF st.tx.convertible THEN Ok(EnvelopeEncode(st.tx)) ELSE Err("CONVERSION")
      [] st.tag \in {"ReadyForBroadcast", "ReadyForBroadcastStuffing"} -> Ok(st.bytes)
      [] OTHER -> Err("NOT_READY_FOR_BROADCAST")

(***************************************************************************)
(* TxComposeData                                                           *)
(***************************************************************************)

TxComposeData(swap, tips, gas, hashes) ==
    [swap |-> swap, tips |-> tips, gas |-> gas, stuffing_txs_hashes |-> hashes]

\* impl Default for TxComposeData
TxComposeData_default == TxComposeData(SwapNone, NoneOpt, 0, << >>)

\* v.contains(x)
Contains(v, x) == \E i \in DOMAIN v : v[i] = x

same_stuffing(self, others_stuffing_txs_hashes) ==
    LET tx_len == Len(self.stuffing_txs_hashes) IN
    IF tx_len # Len(others_stuffing_txs_hashes) THEN FALSE
    ELSE IF tx_len = 0 THEN TRUE
    ELSE \A i \in DOMAIN others_stuffing_txs_hashes :
            Contains(self.stuffing_txs_hashes, others_stuffing_txs_hashes[i])

cross_pools(self, others_pools) ==
    LET v == get_pool_address_vec(self.swap)
    IN  \E i \in DOMAIN v : Contains(others_pools, v[i])

\* The zero-gas guard divides by one instead of returning zero.
tips_gas_ratio_GasFloorOne(self) ==
    IF self.gas = 0 THEN unwrap_or_default(self.tips)
    ELSE unwrap_or_default(self.tips) \div self.gas

tips_gas_ratio(self) ==
    IF self.gas = 0 THEN 0
    ELSE unwrap_or_default(self.tips) \div self.gas

profit_eth_gas_ratio(self) ==
    IF self.gas = 0 THEN 0
    ELSE abs_profit_eth(self.swap) \div self.gas

(***************************************************************************)
(* TxComposeBest                                                           *)
(***************************************************************************)

\* U256::from(10000)
BpsScale == 10000

\* impl Default for TxComposeBest
TxComposeBest_default ==
    [validity_pct |-> NoneOpt,
     best_profit_swap |-> NoneOpt,
     best_profit_gas_ratio_swap |-> NoneOpt,
     best_tips_swap |-> NoneOpt,
     best_tips_gas_ratio_swap |-> NoneOpt]

new_with_pct(validity_pct) ==
    [TxComposeBest_default EXCEPT !.validity_pct = Some(validity_pct)]

\* What one dimension of check does: the slot afterwards, whether it set
\* is_ok, and by which arm ("filled", "replaced", "tolerated", "rejected",
\* or "skipped" when the dimension's guard is false).
Outcome(slot, how) ==
    [slot |-> slot, ok |-> how \in {"filled", "replaced", "tolerated"}, how |-> how]

\* (best * pct) / U256::from(10000) < value
WithinTolerance(best_value, pct, value) ==
    (best_value * pct) \div BpsScale < value

\* The tolerance arm also records the request as the new best.
check_profit_ToleratedReplaces(slot, validity_pct, request) ==
    IF slot = NoneOpt THEN Outcome(Some(request), "filled")
    ELSE IF abs_profit_eth(slot[1].swap) < abs_profit_eth(request.swap)
         THEN Outcome(Some(request), "replaced")
    ELSE IF is_some(validity_pct)
            /\ WithinTolerance(abs_profit_eth(slot[1].swap), validity_pct[1],
                               abs_profit_eth(request.swap))
         THEN Outcome(Some(request), "tolerated")
    ELSE Outcome(slot, "rejected")

\* A request that only equals the best replaces it.
check_profit_ReplacesOnEqual(slot, validity_pct, request) ==
    IF slot = NoneOpt THEN Outcome(Some(request), "filled")
    ELSE IF abs_profit_eth(slot[1].swap) <= abs_profit_eth(request.swap)
         THEN Outcome(Some(request), "replaced")
    ELSE IF is_some(validity_pct)
            /\ WithinTolerance(abs_profit_eth(slot[1].swap), validity_pct[1],
                               abs_profit_eth(request.swap))
         THEN Outcome(slot, "tolerated")
    ELSE Outcome(slot, "rejected")

\* Filling the empty slot is not reported as an acceptance.
check_profit_FillRejects(slot, validity_pct, request) ==
    IF slot = NoneOpt THEN [slot |-> Some(request), ok |-> FALSE, how |-> "filled"]
    ELSE IF abs_profit_eth(slot[1].swap) < abs_profit_eth(request.swap)
         THEN Outcome(Some(request), "replaced")
    ELSE IF is_some(validity_pct)
            /\ WithinTolerance(abs_profit_eth(slot[1].swap), validity_pct[1],
                               abs_profit_eth(request.swap))
         THEN Outcome(slot, "tolerated")
    ELSE Outcome(slot, "rejected")

\* match &self.best_profit_swap { ... }
check_profit(slot, validity_pct, request) ==
    IF slot = NoneOpt THEN Outcome(Some(request), "filled")
    ELSE IF abs_profit_eth(slot[1].swap) < abs_profit_eth(request.swap)
         THEN Outcome(Some(request), "replaced")
    ELSE IF is_some(validity_pct)
            /\ WithinTolerance(abs_profit_eth(slot[1].swap), validity_pct[1],
                               abs_profit_eth(request.swap))
         THEN Outcome(slot, "tolerated")
    ELSE Outcome(slot, "rejected")

\* Equal tips replace the best.
check_tips_ReplacesOnEqual(slot, validity_pct, request) ==
    IF ~is_some(request.tips) THEN Outcome(slot, "skipped")
    ELSE IF slot = NoneOpt THEN Outcome(Some(request), "filled")
    ELSE IF unwrap_or_default(slot[1].tips) <= unwrap_or_default(request.tips)
         THEN Outcome(Some(request), "replaced")
    ELSE IF is_some(validity_pct)
            /\ WithinTolerance(unwrap_or_default(slot[1].tips), validity_pct[1],
                               unwrap_or_default(request.tips))
         THEN Outcome(slot, "tolerated")
    ELSE Outcome(slot, "rejected")

\* A higher tip replaces the best without being reported as accepted.
check_tips_SilentReplace(slot, validity_pct, request) ==
    IF ~is_some(request.tips) THEN Outcome(slot, "skipped")
    ELSE IF slot = NoneOpt THEN Outcome(Some(request), "filled")
    ELSE IF unwrap_or_default(slot[1].tips) < unwrap_or_default(request.tips)
         THEN [slot |-> Some(request), ok |-> FALSE, how |-> "replaced"]
    ELSE IF is_some(validity_pct)
            /\ WithinTolerance(unwrap_or_default(slot[1].tips), validity_pct[1],
                               unwrap_or_default(request.tips))
         THEN Outcome(slot, "tolerated")
    ELSE Outcome(slot, "rejected")

\* if request.tips.is_some() { match &self.best_tips_swap { ... } }
check_tips(slot, validity_pct, request) ==
    IF ~is_some(request.tips) THEN Outcome(slot, "skipped")
    ELSE IF slot = NoneOpt THEN Outcome(Some(request), "filled")
    ELSE IF unwrap_or_default(slot[1].tips) < unwrap_or_default(request.tips)
         THEN Outcome(Some(request), "replaced")
    ELSE IF is_some(validity_pct)
            /\ WithinTolerance(unwrap_or_default(slot[1].tips), validity_pct[1],
                               unwrap_or_default(request.tips))
         THEN Outcome(slot, "tolerated")
    ELSE Outcome(slot, "rejected")

\* if request.gas != 0 { match &self.best_tips_gas_ratio_swap { ... } ... }
check_tips_gas_ratio(slot, validity_pct, request) ==
    IF request.gas = 0 THEN Outcome(slot, "skipped")
    ELSE IF slot = NoneOpt THEN Outcome(Some(request), "filled")
    ELSE IF tips_gas_ratio(slot[1]) < tips_gas_ratio(request)
         THEN Outcome(Some(request), "replaced")
    ELSE IF is_some(validity_pct)
            /\ WithinTolerance(tips_gas_ratio(slot[1]), validity_pct[1],
                               tips_gas_ratio(request))
         THEN Outcome(slot, "tolerated")
    ELSE Outcome(slot, "rejected")

\* if request.gas != 0 { ... match &self.best_profit_gas_ratio_swap { ... } }
check_profit_gas_ratio(slot, validity_pct, request) ==
    IF request.gas = 0 THEN Outcome(slot, "skipped")
    ELSE IF slot = NoneOpt THEN Outcome(Some(request), "filled")
    ELSE IF profit_eth_gas_ratio(slot[1]) < profit_eth_gas_ratio(request)
         THEN Outcome(Some(request), "replaced")
    ELSE IF is_some(validity_pct)
            /\ WithinTolerance(profit_eth_gas_ratio(slot[1]), validity_pct[1],
                               profit_eth_gas_ratio(request))
         THEN Outcome(slot, "tolerated")
    ELSE Outcome(slot, "rejected")

\* TxComposeBest::check(&mut self, request) -> bool: the selector afterwards,
\* the value returned, and the outcome of each dimension.
check(self, request) ==
    LET profit == check_profit(self.best_profit_swap, self.validity_pct, request)
        tips == check_tips(self.best_tips_swap, self.validity_pct, request)
        tips_gas == check_tips_gas_ratio(self.best_tips_gas_ratio_swap,
                                         self.validity_pct, request)
        profit_gas == check_profit_gas_ratio(self.best_profit_gas_ratio_swap,
                                             self.validity_pct, request)
    IN  [self |-> [validity_pct |-> self.validity_pct,
                   best_profit_swap |-> profit.slot,
                   best_profit_gas_ratio_swap |-> profit_gas.slot,
                   best_tips_swap |-> tips.slot,
                   best_tips_gas_ratio_swap |-> tips_gas.slot],
         is_ok |-> profit.ok \/ tips.ok \/ tips_gas.ok \/ profit_gas.ok,
         profit |-> profit.how,
         tips |-> tips.how,
         tips_gas |-> tips_gas.how,
         profit_gas |-> profit_gas.how]

(***************************************************************************)
(* Inputs                                                                  *)
(***************************************************************************)

LineA == SwapLine(100, 180, 1, Some(21), <<"p1", "p2">>, Some("WETH"))
LineB == SwapLine(10, 105, 1, NoneOpt, <<"p3">>, NoneOpt)
LineC == SwapLine(50, 150, 1, Some(30), <<"p2", "p1">>, Some("USDC"))
LineD == SwapLine(60, 50, 2, Some(40), <<"p3", "p3">>, Some("WETH"))
LineE == SwapLine(5, 12, 2, Some(9), << >>, Some("USDC"))

StepEmpty == SwapStep(<< >>)
StepX == SwapStep(<<LineA>>)
StepY == SwapStep(<<LineB, LineC>>)
StepZ == SwapStep(<<LineE>>)

LeafSwaps ==
    {SwapNone,
     BackrunSwapLine(LineA), BackrunSwapLine(LineB), BackrunSwapLine(LineD),
     BackrunSwapSteps(StepX, StepY), BackrunSwapSteps(StepZ, StepX),
     BackrunSwapSteps(StepEmpty, StepY)}

ChildSwaps ==
    LeafSwaps \cup
    {Multiple(<< >>),
     Multiple(<<BackrunSwapLine(LineE), BackrunSwapSteps(StepX, StepY)>>),
     Multiple(<<Multiple(<<BackrunSwapLine(LineC)>>), SwapNone>>)}

Addresses == {"p1", "p2", "p3"}
TxHashes == {"h1", "h2", "h3"}

\* Longest Vec<SwapType> inside a Multiple.
MaxChildren == 2
\* Longest others_pools passed to cross_pools.
MaxOtherPools == 2
\* Longest list of stuffing hashes.
MaxHashes == 3
\* Longest Bytes carried by a TxState.
MaxBytes == 3
\* Number of requests offered to one TxComposeBest.
MaxOffers == 3

SeqsUpTo(S, n) == UNION {[1..k -> S] : k \in 0..n}

ByteValues == {0, 1, 255}

TxStates ==
    {Stuffing([convertible |-> c, payload |-> b]) :
        c \in BOOLEAN, b \in SeqsUpTo(ByteValues, 1)}
    \cup {SignatureRequired([nonce |-> n]) : n \in {0, 7}}
    \cup {ReadyForBroadcast(b) : b \in SeqsUpTo(ByteValues, MaxBytes)}
    \cup {ReadyForBroadcastStuffing(b) : b \in SeqsUpTo(ByteValues, MaxBytes)}

\* The requests offered to the selector: profits 80, 95 and 100 in ETH, with
\* and without tips and gas, and the default record.
Requests ==
    {TxComposeData(BackrunSwapLine(l), t, g, << >>) :
        l \in {LineA, LineB, LineC}, t \in {NoneOpt, Some(6), Some(8)}, g \in {0, 2}}
    \cup {TxComposeData_default}

\* tips and gas of the records the ratios are taken of
TipsValues == {NoneOpt, Some(0), Some(7), Some(100)}
GasValues == {0, 1, 3, 7}

\* validity_pct values passed to new_with_pct, in basis points.
Tolerances == {9000}

NoCall == [op |-> "none", arg |-> << >>, value |-> << >>]
Call(op, arg, value) == [op |-> op, arg |-> arg, value |-> value]

(***************************************************************************)
(* Operations on the records under test                                    *)
(***************************************************************************)

\* TxComposeBest::new_with_pct, before anything is offered
NewWithPct(pct) ==
    /\ best = TxComposeBest_default
    /\ offered = << >>
    /\ best' = new_with_pct(pct)
    /\ UNCHANGED <<offered, results>>
    /\ UNCHANGED <<monitorVars, pureVars>>

\* best.check(&request)
Check(request) ==
    /\ Len(offered) < MaxOffers
    /\ LET r == check(best, request) IN
       /\ best' = r.self
       /\ offered' = Append(offered, request)
       /\ results' = Append(results,
                            [is_ok |-> r.is_ok, profit |-> r.profit, tips |-> r.tips,
                             tips_gas |-> r.tips_gas, profit_gas |-> r.profit_gas,
                             before |-> best])
    /\ UNCHANGED <<monitorVars, pureVars>>

\* data.swap = s
SetSwap(s) ==
    /\ data' = [data EXCEPT !.swap = s]
    /\ ret' = NoCall
    /\ UNCHANGED tx_state
    /\ UNCHANGED <<monitorVars, bestVars>>

\* swap_vec.push(c) on a Multiple
PushChild(c) ==
    /\ data.swap.tag = "Multiple"
    /\ Len(data.swap.vec) < MaxChildren
    /\ data' = [data EXCEPT !.swap = Multiple(Append(data.swap.vec, c))]
    /\ ret' = NoCall
    /\ UNCHANGED tx_state
    /\ UNCHANGED <<monitorVars, bestVars>>

CallAbsProfit ==
    /\ ret' = Call("abs_profit", data.swap, abs_profit(data.swap))
    /\ UNCHANGED <<data, tx_state>>
    /\ UNCHANGED <<monitorVars, bestVars>>

CallAbsProfitEth ==
    /\ ret' = Call("abs_profit_eth", data.swap, abs_profit_eth(data.swap))
    /\ UNCHANGED <<data, tx_state>>
    /\ UNCHANGED <<monitorVars, bestVars>>

CallPreEstimateGas ==
    /\ ret' = Call("pre_estimate_gas", data.swap, pre_estimate_gas(data.swap))
    /\ UNCHANGED <<data, tx_state>>
    /\ UNCHANGED <<monitorVars, bestVars>>

CallGetPoolAddressVec ==
    /\ ret' = Call("get_pool_address_vec", data.swap, get_pool_address_vec(data.swap))
    /\ UNCHANGED <<data, tx_state>>
    /\ UNCHANGED <<monitorVars, bestVars>>

CallGetFirstTokens ==
    /\ ret' = Call("get_first_tokens", data.swap, get_first_tokens(data.swap))
    /\ UNCHANGED <<data, tx_state>>
    /\ UNCHANGED <<monitorVars, bestVars>>

CallCrossPools(others_pools) ==
    /\ ret' = Call("cross_pools", others_pools, cross_pools(data, others_pools))
    /\ UNCHANGED <<data, tx_state>>
    /\ UNCHANGED <<monitorVars, bestVars>>

\* data.stuffing_txs_hashes.push(h)
PushHash(h) ==
    /\ Len(data.stuffing_txs_hashes) < MaxHashes
    /\ data' = [data EXCEPT !.stuffing_txs_hashes = Append(@, h)]
    /\ ret' = NoCall
    /\ UNCHANGED tx_state
    /\ UNCHANGED <<monitorVars, bestVars>>

CallSameStuffing(others_hashes) ==
    /\ ret' = Call("same_stuffing", others_hashes, same_stuffing(data, others_hashes))
    /\ UNCHANGED <<data, tx_state>>
    /\ UNCHANGED <<monitorVars, bestVars>>

\* the TxState of a bundle entry is replaced
SetTxState(st) ==
    /\ tx_state' = st
    /\ ret' = NoCall
    /\ UNCHANGED data
    /\ UNCHANGED <<monitorVars, bestVars>>

\* tx_state.rlp()
CallRlp ==
    /\ ret' = Call("rlp", tx_state, rlp(tx_state))
    /\ UNCHANGED <<data, tx_state>>
    /\ UNCHANGED <<monitorVars, bestVars>>

\* data.tips = t
SetTips(t) ==
    /\ data' = [data EXCEPT !.tips = t]
    /\ ret' = NoCall
    /\ UNCHANGED tx_state
    /\ UNCHANGED <<monitorVars, bestVars>>

\* data.gas = g
SetGas(g) ==
    /\ data' = [data EXCEPT !.gas = g]
    /\ ret' = NoCall
    /\ UNCHANGED tx_state
    /\ UNCHANGED <<monitorVars, bestVars>>

CallTipsGasRatio ==
    /\ ret' = Call("tips_gas_ratio", data, tips_gas_ratio(data))
    /\ UNCHANGED <<data, tx_state>>
    /\ UNCHANGED <<monitorVars, bestVars>>

CallProfitEthGasRatio ==
    /\ ret' = Call("profit_eth_gas_ratio", data, profit_eth_gas_ratio(data))
    /\ UNCHANGED <<data, tx_state>>
    /\ UNCHANGED <<monitorVars, bestVars>>

(***************************************************************************)
(* Specifications                                                          *)
(***************************************************************************)

BestInit ==
    /\ best = TxComposeBest_default
    /\ offered = << >>
    /\ results = << >>

PureInit ==
    /\ data = TxComposeData_default
    /\ tx_state = SignatureRequired([nonce |-> 0])
    /\ ret = NoCall

Init == MonitorInit /\ BestInit /\ PureInit

\* The pool health monitor and the producers of its channel.
Next ==
    \/ \E e \in HealthEvents : Publish(e)
    \/ CloseChannel
    \/ MonitorRecv
    \/ MonitorWrite

Spec == Init /\ [][Next]_vars

\* One selection window of a TxComposeBest.
BestNext ==
    \/ \E pct \in Tolerances : NewWithPct(pct)
    \/ \E request \in Requests : Check(request)

BestSpec == Init /\ [][BestNext]_vars

\* The valuation algebra on a SwapType being composed.
SwapNext ==
    \/ \E s \in LeafSwaps \cup {Multiple(<< >>)} : SetSwap(s)
    \/ \E c \in ChildSwaps : PushChild(c)
    \/ CallAbsProfit
    \/ CallAbsProfitEth
    \/ CallPreEstimateGas
    \/ CallGetPoolAddressVec
    \/ CallGetFirstTokens
    \/ \E o \in SeqsUpTo(Addresses, MaxOtherPools) : CallCrossPools(o)

SwapSpec == Init /\ [][SwapNext]_vars

\* same_stuffing on a growing list of stuffing hashes.
StuffingNext ==
    \/ \E h \in TxHashes : PushHash(h)
    \/ \E o \in SeqsUpTo(TxHashes, MaxHashes) : CallSameStuffing(o)

StuffingSpec == Init /\ [][StuffingNext]_vars

\* rlp on the states of a bundle entry.
RlpNext ==
    \/ \E st \in TxStates : SetTxState(st)
    \/ CallRlp

RlpSpec == Init /\ [][RlpNext]_vars

\* The two ratios on a TxComposeData whose plan, tips and gas are set.
RatioNext ==
    \/ \E sw \in LeafSwaps \cup {Multiple(<< >>)} : SetSwap(sw)
    \/ \E t \in TipsValues : SetTips(t)
    \/ \E g \in GasValues : SetGas(g)
    \/ CallTipsGasRatio
    \/ CallProfitEthGasRatio

RatioSpec == Init /\ [][RatioNext]_vars

\* The monitor beside an operator who re-enables pools.
OpsNext ==
    \/ Next
    \/ \E p \in Pools : OperatorEnable(p)

OpsSpec == Init /\ [][OpsNext]_vars

\* The monitor fed swap errors of one pool, beside tasks that hold the
\* market for reading or writing.
LockNext ==
    \/ Publish(PoolSwapError("p1"))
    \/ Publish(OtherHealthEvent)
    \/ MonitorRecv
    \/ MonitorWrite
    \/ \E mode \in {"read", "write"} : OtherAcquire(mode)
    \/ OtherRelease

LockSpec == Init /\ [][LockNext]_vars

\* The monitor fed swap errors of one pool (and other health events) over a
\* channel that overwrites unread messages.  The runtime keeps scheduling the
\* spawned worker, and the write lock of the market is granted eventually.
LossNext ==
    \/ Publish(PoolSwapError("p1"))
    \/ Publish(OtherHealthEvent)
    \/ MonitorRecv
    \/ MonitorWrite

LossSpec ==
    /\ Init
    /\ [][LossNext]_vars
    /\ WF_vars(MonitorRecv)
    /\ WF_vars(MonitorWrite)

(***************************************************************************)
(* Claims                                                                  *)
(***************************************************************************)

\* The worker is between two turns of its loop as far as pool p goes.
Settled(p) == ~(pc = "write" /\ pending = p)

\* C1: for every pool p, with nobody else writing p's flag: p is enabled and
\* never written while fewer than 100 of its swap errors were consumed; the
\* turn that consumes the 100th makes the one and only set_pool_ok(p, false);
\* from then on p is disabled and the number of disable writes stays 1.
C1_DisabledExactlyOnceAt100 ==
    \A p \in Pools :
        /\ consumed[p] < Threshold =>
              is_pool_ok(market, p) /\ disable_writes[p] = 0
        /\ ~Settled(p) =>
              consumed[p] = Threshold /\ is_pool_ok(market, p) /\ disable_writes[p] = 0
        /\ (consumed[p] >= Threshold /\ Settled(p)) =>
              ~is_pool_ok(market, p) /\ disable_writes[p] = 1

\* The 101st swap error of p1 has been consumed.
C1_Witness ==
    /\ consumed["p1"] = Threshold + 1
    /\ ~is_pool_ok(market, "p1")
    /\ disable_writes["p1"] = 1
    /\ last_log = "pool_disabled"

\* C5: on a channel that loses events, once 100 swap errors of p1 have been
\* consumed p1 does get disabled, and set_pool_ok(p1, false) is never called
\* a second time.
C5_LossOnlyDelays ==
    /\ (consumed["p1"] >= Threshold) ~> ~is_pool_ok(market, "p1")
    /\ [](disable_writes["p1"] <= 1)

\* p1 was disabled although some of its swap errors were lost on the way.
C5_Witness ==
    /\ lost
    /\ consumed["p1"] > Threshold
    /\ ~is_pool_ok(market, "p1")
    /\ disable_writes["p1"] = 1

\* C6: a recv that fails with Closed makes the worker exit, and one that
\* fails with Lagged leaves it in its loop.
C6_ClosedChannelExits ==
    /\ last_log = "recv_error_closed" => pc = "done"
    /\ last_log = "recv_error_lagged" => pc = "recv"

(***************************************************************************)
(* Claims about TxComposeBest::check                                       *)
(***************************************************************************)

Dimensions == {"profit", "tips", "tips_gas", "profit_gas"}

\* The slot a dimension keeps its best in.
SlotOf(b, dim) ==
    CASE dim = "profit" -> b.best_profit_swap
      [] dim = "tips" -> b.best_tips_swap
      [] dim = "tips_gas" -> b.best_tips_gas_ratio_swap
      [] dim = "profit_gas" -> b.best_profit_gas_ratio_swap

\* The value a dimension compares.
ValueOf(d, dim) ==
    CASE dim = "profit" -> abs_profit_eth(d.swap)
      [] dim = "tips" -> unwrap_or_default(d.tips)
      [] dim = "tips_gas" -> tips_gas_ratio(d)
      [] dim = "profit_gas" -> profit_eth_gas_ratio(d)

\* Whether check looks at a dimension for a request.
Evaluated(d, dim) ==
    CASE dim = "profit" -> TRUE
      [] dim = "tips" -> is_some(d.tips)
      [] dim = "tips_gas" -> d.gas # 0
      [] dim = "profit_gas" -> d.gas # 0

\* What the i-th check did on a dimension.
HowOf(i, dim) ==
    CASE dim = "profit" -> results[i].profit
      [] dim = "tips" -> results[i].tips
      [] dim = "tips_gas" -> results[i].tips_gas
      [] dim = "profit_gas" -> results[i].profit_gas

\* The selector before and after the i-th check.
Before(i) == results[i].before
After(i) == IF i < Len(results) THEN results[i + 1].before ELSE best

Accepting == {"filled", "replaced", "tolerated"}

\* C2: with a tolerance configured, a request whose value on an evaluated
\* dimension does not exceed the recorded best is accepted on that dimension
\* exactly when best * tolerance / 10000 < value, and either way the slot of
\* that dimension is left as it was.
C2_ToleranceBand ==
    \A i \in DOMAIN results : \A dim \in Dimensions :
        LET b == Before(i)
            request == offered[i]
        IN  (/\ is_some(b.validity_pct)
             /\ is_some(SlotOf(b, dim))
             /\ Evaluated(request, dim)
             /\ ValueOf(request, dim) <= ValueOf(SlotOf(b, dim)[1], dim))
            =>
            /\ (HowOf(i, dim) \in Accepting) <=>
                 ((ValueOf(SlotOf(b, dim)[1], dim) * b.validity_pct[1]) \div 10000
                      < ValueOf(request, dim))
            /\ HowOf(i, dim) \in {"tolerated", "rejected"}
            /\ SlotOf(After(i), dim) = SlotOf(b, dim)

\* Tolerance 9000 and best profit 100: 95 is let through, 80 is not, and the
\* best profit is still the first request.
C2_Witness ==
    /\ Len(offered) = 3
    /\ best.validity_pct = Some(9000)
    /\ abs_profit_eth(offered[1].swap) = 100
    /\ abs_profit_eth(offered[2].swap) = 95
    /\ abs_profit_eth(offered[3].swap) = 80
    /\ results[2].profit = "tolerated"
    /\ results[3].profit = "rejected"
    /\ best.best_profit_swap = Some(offered[1])

StrictlyIncreasingProfit(q) ==
    \A i \in 1..(Len(q) - 1) : abs_profit_eth(q[i].swap) < abs_profit_eth(q[i + 1].swap)

AllEqual(q) == \A i \in DOMAIN q : q[i] = q[1]

\* C3: without a tolerance, check returns true for every request of a
\* sequence of strictly increasing profit, and for the first request only of
\* a sequence of equal requests.
C3_IncreasingAndConstant ==
    best.validity_pct = NoneOpt =>
        /\ StrictlyIncreasingProfit(offered) =>
              \A i \in DOMAIN results : results[i].is_ok
        /\ AllEqual(offered) =>
              \A i \in DOMAIN results : results[i].is_ok <=> (i = 1)

\* Three requests of profit 80, 95, 100 were offered and each was kept as the
\* new best profit.
C3_Witness ==
    /\ best.validity_pct = NoneOpt
    /\ Len(offered) = 3
    /\ StrictlyIncreasingProfit(offered)
    /\ \A i \in DOMAIN results : results[i].is_ok
    /\ results[3].profit = "replaced"
    /\ best.best_profit_swap = Some(offered[3])

\* C4: a request without tips is never accepted through (and never fills or
\* replaces) the best-tips slot or the best-tips/gas slot, and a request with
\* gas 0 never through either ratio slot.
C4_UndefinedDimensionsSkipped ==
    \A i \in DOMAIN results :
        /\ offered[i].tips = NoneOpt =>
              /\ results[i].tips \notin Accepting
              /\ results[i].tips_gas \notin Accepting
              /\ After(i).best_tips_swap = Before(i).best_tips_swap
              /\ After(i).best_tips_gas_ratio_swap = Before(i).best_tips_gas_ratio_swap
        /\ offered[i].gas = 0 =>
              /\ results[i].tips_gas \notin Accepting
              /\ results[i].profit_gas \notin Accepting
              /\ After(i).best_tips_gas_ratio_swap = Before(i).best_tips_gas_ratio_swap
              /\ After(i).best_profit_gas_ratio_swap = Before(i).best_profit_gas_ratio_swap

(***************************************************************************)
(* Claims about TxComposeData and SwapType                                 *)
(***************************************************************************)

\* C7: same_stuffing is true exactly when the two lists have the same length
\* and the same set of hashes.
C7_SameStuffingIsSetEquality ==
    ret.op = "same_stuffing" =>
        (ret.value <=>
            (/\ Len(data.stuffing_txs_hashes) = Len(ret.arg)
             /\ Range(data.stuffing_txs_hashes) = Range(ret.arg)))

\* Every pool a plan touches, in traversal order: the lines of both steps of
\* a BackrunSwapSteps.
RECURSIVE PoolsTouched(_)
PoolsTouched(s) ==
    CASE s.tag = "BackrunSwapSteps" -> StepPools(s.sp0) \o StepPools(s.sp1)
      [] s.tag = "BackrunSwapLine" -> s.line.pools
      [] s.tag = "Multiple" -> Flatten([i \in DOMAIN s.vec |-> PoolsTouched(s.vec[i])])
      [] s.tag = "None" -> << >>

\* C8: get_pool_address_vec returns every pool the plan touches, in order and
\* with duplicates, and cross_pools(S) is true exactly when one of them is in S.
C8_EveryPoolTouched ==
    /\ ret.op = "get_pool_address_vec" => ret.value = PoolsTouched(data.swap)
    /\ ret.op = "cross_pools" =>
          (ret.value <=> (Range(PoolsTouched(data.swap)) \cap Range(ret.arg) # {}))

\* The leaves of a plan, left to right.
RECURSIVE Leaves(_)
Leaves(s) ==
    IF s.tag = "Multiple"
    THEN Flatten([i \in DOMAIN s.vec |-> Leaves(s.vec[i])])
    ELSE <<s>>

\* What a valuation is on a plan that is no Multiple.
LeafValue(op, s) ==
    CASE s.tag = "None" -> 0
      [] s.tag = "BackrunSwapLine" ->
            (CASE op = "abs_profit" -> SwapLine_abs_profit(s.line)
               [] op = "abs_profit_eth" -> SwapLine_abs_profit_eth(s.line)
               [] op = "pre_estimate_gas" -> unwrap_or_default(s.line.gas_used))
      [] s.tag = "BackrunSwapSteps" ->
            (CASE op = "abs_profit" -> SwapStep_abs_profit(s.sp0, s.sp1)
               [] op = "abs_profit_eth" -> SwapStep_abs_profit_eth(s.sp0, s.sp1)
               [] op = "pre_estimate_gas" -> StepGas(s.sp0) + StepGas(s.sp1))

ValuationOf(op, s) ==
    CASE op = "abs_profit" -> abs_profit(s)
      [] op = "abs_profit_eth" -> abs_profit_eth(s)
      [] op = "pre_estimate_gas" -> pre_estimate_gas(s)

Valuations == {"abs_profit", "abs_profit_eth", "pre_estimate_gas"}

\* C9: each valuation returns a value on every plan: 0 on None and on
\* Multiple([]), and on Multiple(children) the sum of the valuation of the
\* children, which is the sum over the leaves however the Multiples nest.
C9_ValuationsSumChildren ==
    ret.op \in Valuations =>
        /\ ret.value \in Nat
        /\ ret.arg = SwapNone => ret.value = 0
        /\ ret.arg = Multiple(<< >>) => ret.value = 0
        /\ ret.arg.tag = "Multiple" =>
              /\ ret.value =
                   SumSeq([i \in DOMAIN ret.arg.vec |-> ValuationOf(ret.op, ret.arg.vec[i])])
              /\ ret.value =
                   SumSeq([i \in DOMAIN Leaves(ret.arg) |->
                              LeafValue(ret.op, Leaves(ret.arg)[i])])

\* abs_profit of a Multiple of two children, one of them a Multiple again.
C9_Witness ==
    /\ ret.op = "abs_profit"
    /\ ret.arg.tag = "Multiple"
    /\ Len(ret.arg.vec) = 2
    /\ ret.arg.vec[1].tag = "Multiple"
    /\ ret.arg.vec[1].vec # << >>
    /\ ret.arg.vec[2].tag = "BackrunSwapSteps"
    /\ abs_profit(ret.arg.vec[1]) > 0
    /\ abs_profit(ret.arg.vec[2]) > 0
    /\ ret.value = abs_profit(ret.arg.vec[1]) + abs_profit(ret.arg.vec[2])

(***************************************************************************)
(* Claims about TxState                                                    *)
(***************************************************************************)

\* C10: rlp leaves the TxState as it was; on SignatureRequired it returns the
\* error NOT_READY_FOR_BROADCAST, and on ReadyForBroadcast(bytes) and
\* ReadyForBroadcastStuffing(bytes) it returns Ok(bytes).
C10_RlpOfTxState ==
    ret.op = "rlp" =>
        /\ tx_state = ret.arg
        /\ ret.arg.tag = "SignatureRequired" =>
              ret.value = [ok |-> FALSE, value |-> << >>, err |-> "NOT_READY_FOR_BROADCAST"]
        /\ ret.arg.tag \in {"ReadyForBroadcast", "ReadyForBroadcastStuffing"} =>
              ret.value = [ok |-> TRUE, value |-> ret.arg.bytes, err |-> ""]

\* rlp was called on a ReadyForBroadcastStuffing carrying three bytes.
C10_Witness ==
    /\ ret.op = "rlp"
    /\ tx_state.tag = "ReadyForBroadcastStuffing"
    /\ tx_state.bytes = <<255, 0, 1>>
    /\ ret.value.ok
    /\ ret.value.value = <<255, 0, 1>>

(***************************************************************************)
(* Claims about the ratios of TxComposeData                                *)
(***************************************************************************)

\* q is the integer quotient of n by d, for d > 0.
IsQuotient(q, n, d) == q \in Nat /\ q * d <= n /\ n < (q + 1) * d

\* C11: tips_gas_ratio and profit_eth_gas_ratio return 0 when gas is 0,
\* whatever the tips (undefined included) and the profit, and the integer
\* quotients tips / gas and abs_profit_eth / gas otherwise.
C11_RatiosZeroOnZeroGas ==
    /\ ret.op = "tips_gas_ratio" =>
          IF data.gas = 0
          THEN ret.value = 0
          ELSE IsQuotient(ret.value, unwrap_or_default(data.tips), data.gas)
    /\ ret.op = "profit_eth_gas_ratio" =>
          IF data.gas = 0
          THEN ret.value = 0
          ELSE IsQuotient(ret.value, abs_profit_eth(data.swap), data.gas)

\* tips_gas_ratio of a record with tips 100 and gas 0.
C11_Witness ==
    /\ ret.op = "tips_gas_ratio"
    /\ data.gas = 0
    /\ data.tips = Some(100)
    /\ abs_profit_eth(data.swap) > 0
    /\ ret.value = 0

\* C12: beside an operator who may re-enable pools, a turn of the monitor
\* asks for write access exactly when it consumed a swap error that brought
\* its pool's count to 100, and until the access is granted it changes
\* neither the market nor the number of disable writes; the granted write
\* is for a pool whose count is 100 and changes nothing of the market but
\* that pool's flag, which it sets to disabled.  So counts below or above
\* 100 never touch the market: no pool is re-enabled or disabled again.
C12_MarketWrittenOnlyAtThreshold ==
    [][ /\ MonitorRecv =>
              /\ market' = market
              /\ disable_writes' = disable_writes
              /\ pc' = "write" <=>
                    \E p \in Pools : /\ consumed'[p] = consumed[p] + 1
                                     /\ consumed'[p] = Threshold
                                     /\ pending' = p
        /\ MonitorWrite =>
              /\ consumed[pending] = Threshold
              /\ market'.pools = market.pools
              /\ \A q \in Pools :
                    market'.disabled[q] = IF q = pending THEN TRUE
                                          ELSE market.disabled[q]
        /\ (\E p \in Pools : disable_writes'[p] # disable_writes[p]) => MonitorWrite
      ]_vars

\* The operator re-enabled p1 after the monitor had disabled it, and later
\* swap errors of p1 left it enabled.
C12_Witness ==
    /\ consumed["p1"] > Threshold
    /\ is_pool_ok(market, "p1")
    /\ disable_writes["p1"] = 1
    /\ last_log = "pool_disabled"
    /\ pc = "recv"

\* C13: in every state the error map holds, for each pool, the number of
\* that pool's swap errors consumed so far, with an entry exactly for the
\* pools seen at least once; and no step removes an entry or lowers a
\* count, a step raising one by exactly 1.
C13_CountEqualsConsumed ==
    /\ [](\A p \in Pools :
            /\ ErrorCount(pool_errors_map, p) = consumed[p]
            /\ p \in DOMAIN pool_errors_map <=> consumed[p] > 0)
    /\ [][ /\ DOMAIN pool_errors_map \subseteq DOMAIN pool_errors_map'
           /\ \A p \in Pools :
                 \/ ErrorCount(pool_errors_map', p) = ErrorCount(pool_errors_map, p)
                 \/ ErrorCount(pool_errors_map', p) = ErrorCount(pool_errors_map, p) + 1
         ]_vars

\* Both pools counted, one of them just created, over a channel that
\* dropped events.
C13_Witness ==
    /\ "p2" \in DOMAIN pool_errors_map /\ pool_errors_map["p2"] = 1
    /\ "p1" \in DOMAIN pool_errors_map /\ pool_errors_map["p1"] = 3
    /\ consumed["p1"] = 3
    /\ lost

\* C14: a turn of the monitor that receives an event of another kind than
\* PoolSwapError, or a receive error (lagged or closed), leaves the error
\* map and the market as they were, asks for no write access, and ends
\* with the monitor at recv() again.
C14_OtherEventsAndErrorsAreNoOps ==
    [][ (MonitorRecv /\ (~RecvResult.ok \/ RecvResult.inner.kind # "PoolSwapError")) =>
            /\ pool_errors_map' = pool_errors_map
            /\ market' = market
            /\ disable_writes' = disable_writes
            /\ pc' = "recv"
            /\ last_log' = IF RecvResult.ok THEN "none"
                           ELSE RecvErrorLog(RecvResult.err)
      ]_vars

\* A lag error was just logged by a monitor that holds counts and is back
\* at recv() with the next event waiting.
C14_Witness ==
    /\ last_log = "recv_error_lagged"
    /\ pc = "recv"
    /\ TotalErrors > 0
    /\ chan # << >>

\* C15 as stated: the monitor is never waiting for another task, so it is
\* never at market.write().await while a reader or writer holds the market.
C15_NeverWaitsOnAnotherTask ==
    ~(pc = "write" /\ market_lock # "free")

\* C15: the monitor is suspended at recv() or at market.write().await, and
\* at the latter only in the turn that brought a pool's count to exactly
\* 100, before that pool's one disable write; there it waits while another
\* task holds the market.
C15_SuspendsAtRecvOrThresholdWrite ==
    /\ pc \in {"recv", "write"}
    /\ pc = "write" =>
          /\ pending \in Pools
          /\ ErrorCount(pool_errors_map, pending) = Threshold
          /\ disable_writes[pending] = 0
          /\ is_pool_ok(market, pending)
    /\ pc = "recv" => pending = None

\* The monitor waits for the write lock while readers hold the market.
C15_Witness ==
    /\ pc = "write"
    /\ market_lock = "read"
    /\ pending = "p1"

\* Whether a request is accepted on a dimension of selector b: the dimension
\* is evaluated and its slot is empty, or holds less, or holds a best that
\* the request comes within the tolerance of.
AcceptedOn(b, request, dim) ==
    /\ Evaluated(request, dim)
    /\ \/ SlotOf(b, dim) = NoneOpt
       \/ ValueOf(SlotOf(b, dim)[1], dim) < ValueOf(request, dim)
       \/ /\ is_some(b.validity_pct)
          /\ (ValueOf(SlotOf(b, dim)[1], dim) * b.validity_pct[1]) \div 10000
                < ValueOf(request, dim)

\* C16: a check that evaluates a dimension whose slot is empty stores the
\* request in that slot and returns true; the first check on a fresh
\* selector returns true whatever the request; and a check returns true
\* exactly when the request is accepted on at least one evaluated dimension.
C16_EmptySlotAccepts ==
    \A i \in DOMAIN results :
        /\ \A dim \in Dimensions :
              (Evaluated(offered[i], dim) /\ SlotOf(Before(i), dim) = NoneOpt) =>
                  /\ SlotOf(After(i), dim) = Some(offered[i])
                  /\ HowOf(i, dim) = "filled"
                  /\ results[i].is_ok
        /\ i = 1 => results[i].is_ok
        /\ results[i].is_ok <=>
              \E dim \in Dimensions : AcceptedOn(Before(i), offered[i], dim)

\* The default request (no plan, no tips, gas 0) was accepted first by
\* filling the profit slot alone, and a later request filled the tips and
\* tips/gas slots.
C16_Witness ==
    /\ Len(offered) = 2
    /\ offered[1] = TxComposeData_default
    /\ results[1].is_ok
    /\ results[1].profit = "filled"
    /\ results[1].tips = "skipped"
    /\ results[1].profit_gas = "skipped"
    /\ Before(2).best_profit_swap = Some(TxComposeData_default)
    /\ results[2].tips = "filled"
    /\ results[2].tips_gas = "filled"
    /\ best.best_tips_swap = Some(offered[2])

\* The checks so far that evaluated a dimension.
EvaluatedOffers(dim) == {i \in DOMAIN offered : Evaluated(offered[i], dim)}

\* The earliest of them whose value on the dimension is the largest.
EarliestMax(dim) ==
    CHOOSE k \in EvaluatedOffers(dim) :
        \A i \in EvaluatedOffers(dim) :
            \/ ValueOf(offered[i], dim) < ValueOf(offered[k], dim)
            \/ ValueOf(offered[i], dim) = ValueOf(offered[k], dim) /\ k <= i

\* C18: after any sequence of checks, with or without a tolerance, the slot
\* of a dimension is empty exactly when no check evaluated the dimension,
\* and otherwise holds the earliest offered request whose value is the
\* largest among the requests the dimension was evaluated for; and no check
\* empties a slot or lowers the value it holds.
C18_SlotHoldsEarliestMaximum ==
    \A dim \in Dimensions :
        /\ SlotOf(best, dim) = NoneOpt <=> EvaluatedOffers(dim) = {}
        /\ EvaluatedOffers(dim) # {} =>
              SlotOf(best, dim) = Some(offered[EarliestMax(dim)])
        /\ \A i \in DOMAIN results :
              SlotOf(Before(i), dim) # NoneOpt =>
                  /\ SlotOf(After(i), dim) # NoneOpt
                  /\ ValueOf(SlotOf(Before(i), dim)[1], dim)
                        <= ValueOf(SlotOf(After(i), dim)[1], dim)

\* With a tolerance, three requests left the profit slot on the second, the
\* tips slot on the first of two equal tips, and the ratio slots on the
\* third, the only one with gas.
C18_Witness ==
    /\ Len(offered) = 3
    /\ best.validity_pct = Some(9000)
    /\ best.best_profit_swap = Some(offered[2])
    /\ results[3].profit = "tolerated"
    /\ best.best_tips_swap = Some(offered[1])
    /\ offered[2].tips = offered[1].tips
    /\ offered[2] # offered[1]
    /\ offered[3].tips = NoneOpt
    /\ best.best_tips_gas_ratio_swap = Some(offered[3])

\* C19: a check that returns false leaves the selector, its tolerance and
\* its four slots, exactly as it was; a check that changes a slot returns
\* true; and no check changes the tolerance.
C19_RejectionChangesNothing ==
    \A i \in DOMAIN results :
        /\ ~results[i].is_ok => After(i) = Before(i)
        /\ (\E dim \in Dimensions : SlotOf(After(i), dim) # SlotOf(Before(i), dim)) =>
              results[i].is_ok
        /\ After(i).validity_pct = Before(i).validity_pct

\* A selector with a tolerance and all four slots taken rejected a request
\* on every dimension and is as before; an earlier check had replaced the
\* best tips while not raising the profit.
C19_Witness ==
    /\ Len(offered) = 3
    /\ best.validity_pct = Some(9000)
    /\ \A dim \in Dimensions : SlotOf(Before(3), dim) # NoneOpt
    /\ ~results[3].is_ok
    /\ \A dim \in Dimensions : HowOf(3, dim) = "rejected"
    /\ best = Before(3)
    /\ results[2].tips = "replaced"
    /\ results[2].profit # "replaced"

\* The children of a Multiple that have an entry token, and the first child
\* that has a given one.
ChildrenWithToken(vec) == {i \in DOMAIN vec : get_first_token(vec[i]) # NoneOpt}

FirstChildWith(vec, tok) ==
    CHOOSE i \in ChildrenWithToken(vec) :
        /\ get_first_token(vec[i]) = Some(tok)
        /\ \A j \in ChildrenWithToken(vec) :
              get_first_token(vec[j]) = Some(tok) => i <= j

\* C17: get_first_tokens on a Multiple succeeds with a list that holds
\* exactly the entry tokens of the children that have one (children that
\* are None, a nested Multiple or a tokenless line or step pair are passed
\* over), each token once, ordered by the first child that has it; on None
\* it is an error, and on a line or step pair it is the one entry token or,
\* lacking one, an error.
C17_FirstTokensDeduplicated ==
    ret.op = "get_first_tokens" =>
        LET s == data.swap
            r == ret.value
        IN  CASE s.tag = "Multiple" ->
                    /\ r.ok
                    /\ Range(r.value) =
                          {get_first_token(s.vec[i])[1] : i \in ChildrenWithToken(s.vec)}
                    /\ \A a, b \in DOMAIN r.value :
                          a < b => FirstChildWith(s.vec, r.value[a])
                                      < FirstChildWith(s.vec, r.value[b])
                    /\ \A i \in DOMAIN s.vec :
                          s.vec[i].tag \in {"None", "Multiple"} =>
                              i \notin ChildrenWithToken(s.vec)
              [] s.tag = "None" -> ~r.ok /\ r.err = "NOT_SUPPORTED_SWAP_TYPE"
              [] s.tag = "BackrunSwapLine" ->
                    IF s.line.first_token = NoneOpt
                    THEN ~r.ok /\ r.err = "NO_FIRST_TOKEN"
                    ELSE r.ok /\ r.value = <<s.line.first_token[1]>>
              [] s.tag = "BackrunSwapSteps" ->
                    IF s.sp0.swap_line_vec = << >>
                       \/ s.sp0.swap_line_vec[1].first_token = NoneOpt
                    THEN ~r.ok /\ r.err = "NO_FIRST_TOKEN"
                    ELSE r.ok /\ r.value = <<s.sp0.swap_line_vec[1].first_token[1]>>

\* A Multiple of a WETH line and a different plan that also enters with
\* WETH gave the one token WETH.
C17_Witness ==
    /\ ret.op = "get_first_tokens"
    /\ data.swap.tag = "Multiple"
    /\ Len(data.swap.vec) = 2
    /\ get_first_token(data.swap.vec[1]) = Some("WETH")
    /\ get_first_token(data.swap.vec[2]) = Some("WETH")
    /\ data.swap.vec[2] # data.swap.vec[1]
    /\ ret.value = [ok |-> TRUE, value |-> <<"WETH">>, err |-> ""]

\* C20: a step in which the monitor consumes a swap error of pool p, or
\* makes p's disable write, changes the count and the flag of no other
\* pool, and a consumed event raises p's count alone; so, however the
\* events of the pools interleave, each pool is disabled exactly from the
\* write that follows its own 100th consumed swap error.
C20_PoolsAreIndependent ==
    /\ [][ \A p \in Pools :
              (consumed'[p] # consumed[p] \/ disable_writes'[p] # disable_writes[p]) =>
                  /\ \A q \in Pools \ {p} :
                        /\ ErrorCount(pool_errors_map', q) = ErrorCount(pool_errors_map, q)
                        /\ (q \in DOMAIN pool_errors_map') = (q \in DOMAIN pool_errors_map)
                        /\ market'.disabled[q] = market.disabled[q]
                        /\ consumed'[q] = consumed[q]
                        /\ disable_writes'[q] = disable_writes[q]
                  /\ market'.disabled[p] # market.disabled[p] =>
                        ErrorCount(pool_errors_map, p) = Threshold
         ]_vars
    /\ [](\A p \in Pools :
            is_pool_ok(market, p) <=>
                \/ ErrorCount(pool_errors_map, p) < Threshold
                \/ ErrorCount(pool_errors_map, p) = Threshold /\ ~Settled(p))

\* p1 was disabled at its 100th swap error while p2, with two swap errors
\* consumed in between, stays enabled and unwritten.
C20_Witness ==
    /\ consumed["p1"] = Threshold
    /\ ~is_pool_ok(market, "p1")
    /\ disable_writes["p1"] = 1
    /\ consumed["p2"] = 2
    /\ ErrorCount(pool_errors_map, "p2") = 2
    /\ is_pool_ok(market, "p2")
    /\ disable_writes["p2"] = 0

====
